---- MODULE Spec2Model ----
(***************************************************************************)
(* Session manager of sokoverse (src/lib/server/auth/session.ts).          *)
(*                                                                         *)
(* State: the session table, the user table, the wall clock, the entries   *)
(* of the "use cache" store of getCurrentSessionCached, and a record of    *)
(* the most recent call (arguments, time, value returned) and, where the   *)
(* history is kept (HistSpec), of the call before it; the                  *)
(* validateSessionToken calls that run statement by statement (procs,      *)
(* RaceSpec and ConcSpec); the login initiation handler GET with the       *)
(* cookies it sets and its response (oauth, OAuthSpec).                    *)
(*                                                                         *)
(* Time.  Date.now() counts milliseconds and the source's periods are      *)
(* 1000 ms, 15 days and 30 days.  30 days in milliseconds does not fit a   *)
(* 32-bit integer and the clock has to be enumerated, so the model counts  *)
(* time in ticks and keeps the relations the code depends on: a second is  *)
(* more than one tick (the floor at line 166 loses something), the renewal *)
(* window is a whole number of seconds, and the lifetime is twice the      *)
(* renewal window.                                                         *)
(***************************************************************************)
EXTENDS Integers, Sequences, FiniteSets, TLC

VARIABLES sessions, users, now, cache, last, prev, procs, oauth

vars == <<sessions, users, now, cache, last, prev, procs, oauth>>

(***************************************************************************)
(* Bounds and program constants                                            *)
(***************************************************************************)
\* the clock is not advanced beyond MaxNow ticks
MaxNow == 7

\* ticks in one second: the 1000 of Math.floor((expiresAt - now) / 1000)
MsPerSec == 2

\* 1000 * 60 * 60 * 24 * 15, the renewal window, in ticks
RenewWindow == 2

\* 1000 * 60 * 60 * 24 * 30, the session lifetime, in ticks
SessionLifetime == 4

Tokens == {"t1", "t2"}

UserIds == {1, 2}

\* the value null of the source
Null == [null |-> TRUE]

\* `{ session: null, user: null }`
NoSession == [session |-> Null, user |-> Null]

\* markers of `last` for a call without that argument
NoToken == "-"
NoUser == 0

(***************************************************************************)
(* encodeHexLowerCase(sha256(new TextEncoder().encode(token))): a string   *)
(* that is never the token, different for different tokens.                *)
(***************************************************************************)
\* the raw token as the session id
HashTokenRaw(token) == token

HashToken(token) == "sha256:" \o token

SessionIds == {HashToken(t) : t \in Tokens}

\* the row of userTable with that id
User(userId) == [id |-> userId]

(***************************************************************************)
(* Storage steps (drizzle statements of session.ts)                        *)
(***************************************************************************)
\* db.insert(sessionTable).values(session); the primary key id is unique,
\* an insert of an id that is present is rejected
InsertFails(tbl, session) == \E s \in tbl : s.id = session.id

\* an insert that is not persisted
InsertSessionLost(tbl, session) == tbl

InsertSession(tbl, session) == tbl \cup {session}

\* a select from sessionTable alone
SelectNoJoin(tbl, utbl, sessionId) ==
    {[user |-> User(r.userId), session |-> r] : r \in {q \in tbl : q.id = sessionId}}

\* the join without its where clause
SelectJoinAnyId(tbl, utbl, sessionId) ==
    {[user |-> p[1], session |-> p[2]] :
        p \in {q \in utbl \X tbl : q[2].userId = q[1].id}}

\* select({user, session}).from(sessionTable).innerJoin(userTable,
\*   eq(sessionTable.userId, userTable.id)).where(eq(sessionTable.id, id))
SelectJoin(tbl, utbl, sessionId) ==
    {[user |-> p[1], session |-> p[2]] :
        p \in {q \in utbl \X tbl : q[2].userId = q[1].id /\ q[2].id = sessionId}}

\* a delete that keeps the row and marks it expired
DeleteByIdSoft(tbl, sessionId) ==
    {IF s.id = sessionId THEN [s EXCEPT !.expiresAt = 0] ELSE s : s \in tbl}

\* a delete that also takes the rows of the same user
DeleteByIdAndUser(tbl, sessionId) ==
    {s \in tbl : \A r \in tbl : r.id = sessionId => s.userId # r.userId}

\* db.delete(sessionTable).where(eq(sessionTable.id, id))
DeleteById(tbl, sessionId) == {s \in tbl : s.id # sessionId}

\* a delete without its where clause
DeleteByUserAll(tbl, userId) == {}

\* db.delete(sessionTable).where(eq(sessionTable.userId, userId))
DeleteByUser(tbl, userId) == {s \in tbl : s.userId # userId}

\* a renewal that is not written back
UpdateExpiryNone(tbl, sessionId, expiresAt) == tbl

\* db.update(sessionTable).set({expiresAt}).where(eq(sessionTable.id, id))
UpdateExpiry(tbl, sessionId, expiresAt) ==
    {IF s.id = sessionId THEN [s EXCEPT !.expiresAt = expiresAt] ELSE s : s \in tbl}

(***************************************************************************)
(* createSession and validateSessionToken                                  *)
(***************************************************************************)
\* an expiry one tick beyond the lifetime
NewExpiryLong(t) == t + SessionLifetime + 1

\* new Date(Date.now() + 1000 * 60 * 60 * 24 * 30)
NewExpiry(t) == t + SessionLifetime

\* the session object built by createSession
NewSession(token, userId, t) ==
    [id |-> HashToken(token), userId |-> userId, expiresAt |-> NewExpiry(t)]

\* > in place of >=
IsExpiredStrict(session, t) == t > session.expiresAt

\* Date.now() >= session.expiresAt.getTime()
IsExpired(session, t) == t >= session.expiresAt

\* a renewal on every validation, and on none
InRenewWindowAlways(session, t) == TRUE

InRenewWindowNever(session, t) == FALSE

\* Date.now() >= session.expiresAt.getTime() - 1000 * 60 * 60 * 24 * 15
InRenewWindow(session, t) == t >= session.expiresAt - RenewWindow

\* a validation that also deletes a row it finds without its user
ValidateSessionTokenPurge(tbl, utbl, token, t) ==
    LET sessionId == HashToken(token)
        result == SelectJoin(tbl, utbl, sessionId)
    IN  IF Cardinality(result) < 1
        THEN [ret |-> NoSession, tbl |-> DeleteById(tbl, sessionId)]
        ELSE LET first == CHOOSE r \in result : TRUE
                 user == first.user
                 session == first.session
             IN  IF IsExpired(session, t)
                 THEN [ret |-> NoSession, tbl |-> DeleteById(tbl, session.id)]
                 ELSE IF InRenewWindow(session, t)
                      THEN LET renewed == [session EXCEPT !.expiresAt = NewExpiry(t)]
                           IN  [ret |-> [session |-> renewed, user |-> user],
                                tbl |-> UpdateExpiry(tbl, session.id, renewed.expiresAt)]
                      ELSE [ret |-> [session |-> session, user |-> user], tbl |-> tbl]

\* validateSessionToken(token) run at time t on the tables tbl and utbl:
\* the value returned (ret) and the session table it leaves (tbl)
ValidateSessionToken(tbl, utbl, token, t) ==
    LET sessionId == HashToken(token)
        result == SelectJoin(tbl, utbl, sessionId)
    IN  IF Cardinality(result) < 1
        THEN [ret |-> NoSession, tbl |-> tbl]
        ELSE LET first == CHOOSE r \in result : TRUE
                 user == first.user
                 session == first.session
             IN  IF IsExpired(session, t)
                 THEN [ret |-> NoSession, tbl |-> DeleteById(tbl, session.id)]
                 ELSE IF InRenewWindow(session, t)
                      THEN LET renewed == [session EXCEPT !.expiresAt = NewExpiry(t)]
                           IN  [ret |-> [session |-> renewed, user |-> user],
                                tbl |-> UpdateExpiry(tbl, session.id, renewed.expiresAt)]
                      ELSE [ret |-> [session |-> session, user |-> user], tbl |-> tbl]

(***************************************************************************)
(* The "use cache" store of getCurrentSessionCached.  An entry is keyed by *)
(* the argument (a token, or NoToken for null) and holds the value the     *)
(* body returned, its tag and the time it stops being served.              *)
(***************************************************************************)
CacheKeys == Tokens \cup {NoToken}

NoEntry == [none |-> TRUE]

\* Math.ceil in place of Math.floor
RemainingTimeCeil(expiresAt, t) ==
    LET secs == (expiresAt - t + MsPerSec - 1) \div MsPerSec
    IN  IF secs > 0 THEN secs ELSE 0

\* Math.max(0, Math.floor((expiresAt - now) / 1000))
RemainingTime(expiresAt, t) ==
    LET secs == (expiresAt - t) \div MsPerSec
    IN  IF secs > 0 THEN secs ELSE 0

\* cacheTag(`session:${result.session.id}`)
CacheTag(session) == "session:" \o session.id

\* the entry written for a value computed at time t:
\* cacheLife({stale: 0, revalidate: remainingTime, expire: remainingTime})
\* for a session; no tag and no cacheLife call otherwise, which leaves the
\* lifetime to the default profile of the cache, not set in this file: such
\* an entry is served until the cache drops it (CacheDrop)
CacheEntry(ret, t) ==
    IF ret.session = Null
    THEN [value |-> ret, tag |-> "", profile |-> "default", life |-> 0, storedAt |-> 0]
    ELSE [value |-> ret, tag |-> CacheTag(ret.session), profile |-> "custom",
          life |-> RemainingTime(ret.session.expiresAt, t), storedAt |-> t]

\* the time an entry stops being served: expire seconds after it was stored
EntryExpiresAt(entry) == entry.storedAt + entry.life * MsPerSec

\* "use cache": the entry of that key is served instead of running the body,
\* for `expire` seconds from the time it was stored
CacheHit(c, key, t) ==
    /\ c[key] # NoEntry
    /\ \/ c[key].profile = "default"
       \/ t < EntryExpiresAt(c[key])

\* the entries still served at time t
LiveEntries(c, t) == [k \in CacheKeys |-> IF CacheHit(c, k, t) THEN c[k] ELSE NoEntry]

\* the body of getCurrentSessionCached run at time t
GetCurrentSessionBody(tbl, utbl, token, t) ==
    IF token = NoToken
    THEN [ret |-> NoSession, tbl |-> tbl]
    ELSE LET v == ValidateSessionToken(tbl, utbl, token, t)
         IN  IF v.ret.session = Null
             THEN [ret |-> NoSession, tbl |-> v.tbl]
             ELSE v

(***************************************************************************)
(* State machine                                                           *)
(***************************************************************************)
\* the record of a call: its arguments, the time, the rows of the session
\* table its statements matched when it started (was), the value returned
\* (ret), whether it threw, and whether the value came from the cache (hit)
Call(op, token, userId, sessionId, was, ret, threw, hit) ==
    [op |-> op, token |-> token, userId |-> userId, sessionId |-> sessionId,
     at |-> now, was |-> was, ret |-> ret, threw |-> threw, hit |-> hit]

NoCall == [op |-> "none", token |-> NoToken, userId |-> NoUser, sessionId |-> "",
           at |-> 0, was |-> {}, ret |-> NoSession, threw |-> FALSE, hit |-> FALSE]

\* the rows with that id, the rows of that user
RowsById(tbl, sessionId) == {s \in tbl : s.id = sessionId}
RowsByUser(tbl, userId) == {s \in tbl : s.userId = userId}

\* prev where the history is not kept
HistoryOff == [off |-> TRUE]

\* prev after a call: the call that was the most recent one
Shift == IF prev = HistoryOff THEN prev ELSE last

(***************************************************************************)
(* validateSessionToken statement by statement, for requests that overlap  *)
(***************************************************************************)
\* the requests that can run validateSessionToken at the same time
Procs == {"a", "b"}

\* a request that runs no call and has run none
NoRun == [pc |-> "idle", token |-> NoToken, saw |-> Null, session |-> Null,
          user |-> Null, ret |-> NoSession]

(***************************************************************************)
(* The login initiation handler GET (src/unnamed/part_000)                 *)
(***************************************************************************)
\* values of generateState() and generateCodeVerifier()
OAuthStates == {"s1", "s2", "s3"}

CodeVerifiers == {"v1", "v2", "v3"}

\* maxAge: 60 * 10
CookieMaxAge == 60 * 10

\* status: 302
StatusFound == 302

NoCookie == [absent |-> TRUE]

NoResponse == [none |-> TRUE]

\* no GET has been called
NoRequest ==
    [pc |-> "idle", state |-> "", codeVerifier |-> "", production |-> FALSE,
     url |-> Null,
     cookies |-> [google_oauth_state |-> NoCookie, google_code_verifier |-> NoCookie,
                 session |-> NoCookie],
     response |-> NoResponse]

Init ==
    /\ sessions = {}
    /\ users = {User(u) : u \in UserIds}
    /\ now = 0
    /\ cache = [k \in CacheKeys |-> NoEntry]
    /\ last = NoCall
    /\ prev = HistoryOff
    /\ procs = [p \in Procs |-> NoRun]
    /\ oauth = NoRequest

\* createSession(token, userId), called with the id of a user row
createSession(token, userId) ==
    LET session == NewSession(token, userId, now)
    IN  /\ User(userId) \in users
        /\ IF InsertFails(sessions, session)
           THEN /\ last' = Call("createSession", token, userId, session.id,
                                RowsById(sessions, session.id), NoSession, TRUE, FALSE)
                /\ UNCHANGED sessions
           ELSE /\ sessions' = InsertSession(sessions, session)
                /\ last' = Call("createSession", token, userId, session.id, {},
                                [session |-> session, user |-> Null], FALSE, FALSE)
        /\ prev' = Shift
        /\ UNCHANGED <<users, now, cache, procs, oauth>>

\* validateSessionToken(token)
validateSessionToken(token) ==
    LET v == ValidateSessionToken(sessions, users, token, now)
    IN  /\ sessions' = v.tbl
        /\ last' = Call("validateSessionToken", token, NoUser, HashToken(token),
                        RowsById(sessions, HashToken(token)), v.ret, FALSE, FALSE)
        /\ prev' = Shift
        /\ UNCHANGED <<users, now, cache, procs, oauth>>

\* invalidateSession(sessionId)
invalidateSession(sessionId) ==
    /\ sessions' = DeleteById(sessions, sessionId)
    /\ last' = Call("invalidateSession", NoToken, NoUser, sessionId,
                    RowsById(sessions, sessionId), NoSession, FALSE, FALSE)
    /\ prev' = Shift
    /\ UNCHANGED <<users, now, cache, procs, oauth>>

\* invalidateAllSessions(userId)
invalidateAllSessions(userId) ==
    /\ sessions' = DeleteByUser(sessions, userId)
    /\ last' = Call("invalidateAllSessions", NoToken, userId, "",
                    RowsByUser(sessions, userId), NoSession, FALSE, FALSE)
    /\ prev' = Shift
    /\ UNCHANGED <<users, now, cache, procs, oauth>>

\* getCurrentSession() of a request whose session cookie is token
\* (NoToken: no cookie), through getCurrentSessionCached
getCurrentSession(token) ==
    /\ IF CacheHit(cache, token, now)
       THEN /\ last' = Call("getCurrentSession", token, NoUser, "", {},
                            cache[token].value, FALSE, TRUE)
            /\ UNCHANGED <<sessions, cache>>
       ELSE LET b == GetCurrentSessionBody(sessions, users, token, now)
            IN  /\ sessions' = b.tbl
                /\ cache' = [cache EXCEPT ![token] = CacheEntry(b.ret, now)]
                /\ last' = Call("getCurrentSession", token, NoUser,
                                IF token = NoToken THEN "" ELSE HashToken(token),
                                IF token = NoToken THEN {}
                                ELSE RowsById(sessions, HashToken(token)),
                                b.ret, FALSE, FALSE)
    /\ prev' = Shift
    /\ UNCHANGED <<users, now, procs, oauth>>

\* the cache drops an entry (eviction, restart)
CacheDrop(key) ==
    /\ cache[key] # NoEntry
    /\ cache' = [cache EXCEPT ![key] = NoEntry]
    /\ UNCHANGED <<sessions, users, now, last, prev, procs, oauth>>

\* a user row is removed by the rest of the application
DeleteUser(userId) ==
    /\ User(userId) \in users
    /\ users' = users \ {User(userId)}
    /\ last' = Call("deleteUser", NoToken, userId, "", {}, NoSession, FALSE, FALSE)
    /\ prev' = Shift
    /\ UNCHANGED <<sessions, now, cache, procs, oauth>>

\* time passes; cache entries whose lifetime is over are gone
AdvanceClock(d) ==
    /\ now + d <= MaxNow
    /\ now' = now + d
    /\ cache' = LiveEntries(cache, now')
    /\ UNCHANGED <<sessions, users, last, prev, procs, oauth>>

\* the session manager without the cached path
Next ==
    \/ \E token \in Tokens, userId \in UserIds : createSession(token, userId)
    \/ \E token \in Tokens : validateSessionToken(token)
    \/ \E sessionId \in SessionIds : invalidateSession(sessionId)
    \/ \E userId \in UserIds : invalidateAllSessions(userId)
    \/ \E userId \in UserIds : DeleteUser(userId)
    \/ \E d \in 1..SessionLifetime : AdvanceClock(d)

Spec == Init /\ [][Next]_vars

\* the same, keeping the call before the most recent one
HistInit ==
    /\ sessions = {}
    /\ users = {User(1)}
    /\ now = 0
    /\ cache = [k \in CacheKeys |-> NoEntry]
    /\ last = NoCall
    /\ prev = NoCall
    /\ procs = [p \in Procs |-> NoRun]
    /\ oauth = NoRequest

HistSpec == HistInit /\ [][Next]_vars

\* the session manager with getCurrentSession, for one registered user
CacheInit ==
    /\ sessions = {}
    /\ users = {User(1)}
    /\ now = 0
    /\ cache = [k \in CacheKeys |-> NoEntry]
    /\ last = NoCall
    /\ prev = HistoryOff
    /\ procs = [p \in Procs |-> NoRun]
    /\ oauth = NoRequest

CacheNext ==
    \/ \E token \in Tokens, userId \in UserIds : createSession(token, userId)
    \/ \E token \in Tokens : validateSessionToken(token)
    \/ \E sessionId \in SessionIds : invalidateSession(sessionId)
    \/ \E userId \in UserIds : invalidateAllSessions(userId)
    \/ \E token \in CacheKeys : getCurrentSession(token)
    \/ \E key \in CacheKeys : CacheDrop(key)
    \/ \E d \in 1..SessionLifetime : AdvanceClock(d)

CacheSpec == CacheInit /\ [][CacheNext]_vars

(***************************************************************************)
(* Properties                                                              *)
(***************************************************************************)
\* this step is a call of op (it leaves a new call record)
Called(op) == last' # last /\ last'.op = op

\* the most recent call is a validateSessionToken
Validated == last.op = "validateSessionToken"

\* the row of the user exists
UserExists(userId) == User(userId) \in users

\* the most recent call is a validateSessionToken of the token of the
\* createSession that succeeded right before it
CreatedThenValidated ==
    /\ prev.op = "createSession"
    /\ ~prev.threw
    /\ Validated
    /\ last.token = prev.token

\* C1 as stated: createSession(t, u), then validateSessionToken(t) as the
\* next call at any time before the expiry, returns user u and the session
\* (hash(t), u, creation time + 30 days).
C1_Original ==
    (CreatedThenValidated /\ last.at < prev.ret.session.expiresAt)
        => last.ret = [session |-> [id |-> HashToken(prev.token),
                                    userId |-> prev.userId,
                                    expiresAt |-> prev.at + SessionLifetime],
                       user |-> User(prev.userId)]

\* C1 amended: createSession(t, u), then validateSessionToken(t) as the next
\* call before the expiry, returns user u and the session (hash(t), u, e)
\* where e is creation time + 30 days when the validation runs less than 15
\* days after the creation, and validation time + 30 days from then on.
C1_ValidateAfterCreate ==
    (CreatedThenValidated /\ last.at < prev.ret.session.expiresAt)
        => last.ret = [session |-> [id |-> HashToken(prev.token),
                                    userId |-> prev.userId,
                                    expiresAt |->
                                        IF last.at < prev.at + SessionLifetime - RenewWindow
                                        THEN prev.at + SessionLifetime
                                        ELSE last.at + SessionLifetime],
                       user |-> User(prev.userId)]

C1_Witness ==
    /\ CreatedThenValidated
    /\ last.ret.session = prev.ret.session
    /\ last.ret.user = User(prev.userId)
    /\ last.ret.session \in sessions

\* C2 as stated: validateSessionToken(t) at a time now >= the stored
\* expiresAt of the row hash(t) returns no session and leaves no row hash(t).
C2_Original ==
    (Validated /\ \E s \in last.was : last.at >= s.expiresAt)
        => /\ last.ret = NoSession
           /\ RowsById(sessions, HashToken(last.token)) = {}

\* C2 amended: validateSessionToken(t) at a time now >= the stored expiresAt
\* of the row hash(t) whose owning user exists returns no session and leaves
\* no row hash(t).
C2_ExpiredRemoved ==
    (Validated /\ \E s \in last.was : last.at >= s.expiresAt /\ UserExists(s.userId))
        => /\ last.ret = NoSession
           /\ RowsById(sessions, HashToken(last.token)) = {}

\* the boundary now = expiresAt
C2_Witness ==
    /\ Validated
    /\ \E s \in last.was : last.at = s.expiresAt /\ UserExists(s.userId)
    /\ last.ret = NoSession
    /\ RowsById(sessions, HashToken(last.token)) = {}

\* C3: validateSessionToken(t) at a time now with expiresAt - 15 days <= now
\* < expiresAt for the row hash(t) whose user exists stores now + 30 days as
\* the expiry of the row and returns the session with that expiry.
C3_RenewedInWindow ==
    (Validated /\ \E s \in last.was : /\ UserExists(s.userId)
                                      /\ s.expiresAt - RenewWindow <= last.at
                                      /\ last.at < s.expiresAt)
        => /\ last.ret.session # Null
           /\ last.ret.session.expiresAt = last.at + SessionLifetime
           /\ RowsById(sessions, HashToken(last.token)) =
                  {[s EXCEPT !.expiresAt = last.at + SessionLifetime] : s \in last.was}
           /\ RowsById(sessions, HashToken(last.token)) = {last.ret.session}

C3_Witness ==
    /\ Validated
    /\ \E s \in last.was : /\ UserExists(s.userId)
                           /\ s.expiresAt - RenewWindow <= last.at
                           /\ last.at < s.expiresAt
                           /\ s.expiresAt < last.at + SessionLifetime
    /\ last.ret.session \in sessions
    /\ last.ret.session.expiresAt = last.at + SessionLifetime

\* C4 as stated: validateSessionToken(t) at a time now < expiresAt - 15 days
\* for the row hash(t) leaves the session table as it was and returns the
\* session with the expiry it had.
C4_Original ==
    [][(Called("validateSessionToken")
            /\ \E s \in RowsById(sessions, HashToken(last'.token)) :
                   now < s.expiresAt - RenewWindow)
        => /\ sessions' = sessions
           /\ last'.ret.session \in RowsById(sessions, HashToken(last'.token))]_vars

\* C4 amended: validateSessionToken(t) at a time now < expiresAt - 15 days
\* for the row hash(t) leaves the session table as it was; it returns the
\* session with the expiry it had when the owning user exists, and no
\* session when the user is missing.
C4_UnchangedBeforeWindow ==
    [][\A s \in sessions :
        (Called("validateSessionToken") /\ s.id = HashToken(last'.token)
                                        /\ now < s.expiresAt - RenewWindow)
        => /\ sessions' = sessions
           /\ last'.ret = IF UserExists(s.userId)
                          THEN [session |-> s, user |-> User(s.userId)]
                          ELSE NoSession]_vars

C4_Witness ==
    /\ Validated
    /\ \E s \in last.was : /\ last.at < s.expiresAt - RenewWindow
                           /\ last.at > s.expiresAt - SessionLifetime
                           /\ last.ret.session = s
                           /\ s \in sessions

\* C5: invalidateAllSessions(u) leaves no row of user u and leaves every row
\* of another user stored with the id, userId and expiresAt it had.
C5_OnlyThatUser ==
    [][\A u \in UserIds :
        (Called("invalidateAllSessions") /\ last'.userId = u)
        => /\ \A s \in sessions' : s.userId # u
           /\ \A s \in sessions : s.userId # u => s \in sessions']_vars

C5_Witness ==
    /\ last.op = "invalidateAllSessions"
    /\ last.was # {}
    /\ RowsByUser(sessions, last.userId) = {}
    /\ \E s \in sessions : s.userId # last.userId

\* C6: validateSessionToken(t) returns a session exactly when a row hash(t)
\* is stored, now < its expiresAt and the user row of its userId exists; in
\* every other case it returns {session: null, user: null}.
C6_ValidIff ==
    Validated =>
        /\ last.ret.session # Null
               <=> \E s \in last.was : /\ s.id = HashToken(last.token)
                                       /\ last.at < s.expiresAt
                                       /\ UserExists(s.userId)
        /\ last.ret.session = Null => last.ret = NoSession

\* the row is stored and not expired, the owning user is missing
C6_Witness ==
    /\ Validated
    /\ \E s \in last.was : last.at < s.expiresAt /\ ~UserExists(s.userId)
    /\ last.ret = NoSession

\* C7: the id of every stored row is the hash of a token, never a token; a
\* row with a new id is written only by createSession, under the hash of its
\* token; validateSessionToken reads, updates and deletes no row but the one
\* of the hash of its token.
C7_OnlyHashStored ==
    /\ [](\A s \in sessions : /\ s.id \notin Tokens
                              /\ \E t \in Tokens : s.id = HashToken(t))
    /\ [][\A r \in sessions' :
            RowsById(sessions, r.id) = {}
                => /\ Called("createSession")
                   /\ r.id = HashToken(last'.token)
                   /\ r.id # last'.token]_vars
    /\ [][Called("validateSessionToken")
            => /\ \A r \in (sessions \ sessions') \cup (sessions' \ sessions) :
                      r.id = HashToken(last'.token)
               /\ \A r \in last'.was : r.id = HashToken(last'.token)
               /\ last'.ret.session # Null
                      => last'.ret.session.id = HashToken(last'.token)]_vars

C7_Witness ==
    /\ Validated
    /\ last.ret.session \in sessions
    /\ last.ret.session.id = HashToken(last.token)
    /\ last.ret.session.id # last.token
    /\ Cardinality(sessions) = Cardinality(Tokens)

\* the most recent call is a validateSessionToken(t) at t1, the call before
\* it the createSession(t, u) at t0, and t0 + 15 days <= t1 < t0 + 30 days
RenewedAfterCreate ==
    /\ CreatedThenValidated
    /\ prev.at + RenewWindow <= last.at
    /\ last.at < prev.at + SessionLifetime

\* C8: a session created at t0 and validated at t1 with t0 + 15 days <= t1 <
\* t0 + 30 days is returned with the expiry t1 + 30 days, and the next
\* validation of the token, at a time t2 >= t1 + 30 days, returns no session.
C8_RenewThenExpire ==
    /\ [](RenewedAfterCreate
            => /\ last.ret.session # Null
               /\ last.ret.session.expiresAt = last.at + SessionLifetime)
    /\ [][(RenewedAfterCreate /\ Called("validateSessionToken")
                              /\ last'.token = last.token
                              /\ now >= last.at + SessionLifetime)
            => last'.ret = NoSession]_vars

\* the second of the two validations has returned
C8_Witness ==
    /\ prev.op = "validateSessionToken"
    /\ \E s \in prev.was : /\ prev.at = s.expiresAt - SessionLifetime + RenewWindow + 1
                           /\ prev.ret.session = [s EXCEPT !.expiresAt = prev.at + SessionLifetime]
    /\ Validated
    /\ last.token = prev.token
    /\ last.at >= prev.at + SessionLifetime
    /\ last.ret = NoSession

\* C9: a getCurrentSession call with the token of a stored session whose
\* user exists, at a time now with expiresAt - 15 days <= now < expiresAt,
\* leaves the row stored with the expiry now + 30 days.
C9_SlidingThroughCache ==
    [][\A s \in sessions :
        (Called("getCurrentSession") /\ last'.token # NoToken
                                     /\ s.id = HashToken(last'.token)
                                     /\ UserExists(s.userId)
                                     /\ s.expiresAt - RenewWindow <= now
                                     /\ now < s.expiresAt)
        => [s EXCEPT !.expiresAt = now + SessionLifetime] \in sessions']_vars

\* a cache entry that holds a session
Positive(entry) == entry # NoEntry /\ entry.value.session # Null

\* C10: the lifetime of every cache entry that holds a session is no longer
\* than the time from its storing to the expiry of that session, which is
\* the row then stored; the entry stops being served no later than the
\* session expires, and getCurrentSession returns no session at a time >=
\* the expiresAt of that session, returned or stored.
C10_CacheWithinSession ==
    /\ [](\A k \in CacheKeys :
            Positive(cache[k])
                => /\ cache[k].life * MsPerSec
                          <= cache[k].value.session.expiresAt - cache[k].storedAt
                   /\ EntryExpiresAt(cache[k]) <= cache[k].value.session.expiresAt)
    /\ []((last.op = "getCurrentSession" /\ last.ret.session # Null)
            => /\ last.at < last.ret.session.expiresAt
               /\ \A s \in RowsById(sessions, last.ret.session.id) :
                      last.at < s.expiresAt)
    /\ [][\A k \in CacheKeys :
            (Positive(cache'[k]) /\ cache'[k] # cache[k])
                => /\ cache'[k].value.session \in sessions'
                   /\ cache'[k].storedAt = now]_vars

\* a session served from an entry that the floor made shorter than the session
C10_Witness ==
    /\ last.op = "getCurrentSession"
    /\ last.hit
    /\ Positive(cache[last.token])
    /\ last.at > cache[last.token].storedAt
    /\ last.ret = cache[last.token].value
    /\ EntryExpiresAt(cache[last.token]) < last.ret.session.expiresAt
    /\ last.ret.session \in sessions

\* C11: invalidateSession(id) removes the row with that id and no other; a
\* call of invalidateSession or invalidateAllSessions that matches nothing
\* does not throw and leaves the table as it was; the same call made a
\* second time leaves the table as the first left it.
C11_ExactAndIdempotent ==
    /\ [][Called("invalidateSession")
            => /\ RowsById(sessions', last'.sessionId) = {}
               /\ \A s \in sessions : s.id # last'.sessionId => s \in sessions'
               /\ sessions' \subseteq sessions]_vars
    /\ [](last.op \in {"invalidateSession", "invalidateAllSessions"} => ~last.threw)
    /\ [][(Called("invalidateSession") \/ Called("invalidateAllSessions"))
            => (last'.was = {} => sessions' = sessions)]_vars
    /\ [][(last.op \in {"invalidateSession", "invalidateAllSessions"}
             /\ last'.op = last.op /\ last'.sessionId = last.sessionId
             /\ last'.userId = last.userId)
            => sessions' = sessions]_vars

\* the second of two invalidateSession calls with the same id, another row
\* still stored
C11_Witness ==
    /\ prev.op = "invalidateSession"
    /\ prev.was # {}
    /\ last.op = "invalidateSession"
    /\ last.sessionId = prev.sessionId
    /\ last.was = {}
    /\ ~last.threw
    /\ sessions # {}

(***************************************************************************)
(* The login initiation handler GET, statement by statement                *)
(***************************************************************************)
\* google.createAuthorizationURL(state, codeVerifier, ["openid", "profile"]):
\* the provider's authorization endpoint with the state, the S256 challenge
\* of the verifier and the scopes as search parameters
CreateAuthorizationURL(state, codeVerifier, scopes) ==
    [state |-> state,
     code_challenge |-> "S256:" \o codeVerifier,
     scope |-> scopes]

\* url.searchParams.set(name, value)
SearchParamsSet(url, name, value) ==
    [k \in DOMAIN url \cup {name} |-> IF k = name THEN value ELSE url[k]]

\* url.toString()
UrlToString(url) ==
    "https://accounts.google.com/o/oauth2/v2/auth?state=" \o url.state
        \o "&code_challenge=" \o url.code_challenge
        \o "&scope=" \o url.scope
        \o "&prompt=" \o url.prompt

\* the options both cookies are set with
Cookie(value, production) ==
    [value |-> value, path |-> "/", httpOnly |-> TRUE, secure |-> production,
     maxAge |-> CookieMaxAge, sameSite |-> "lax"]

\* new Response(null, {status: 302, headers: {Location: url.toString()}})
Redirect(url) ==
    [status |-> StatusFound, Location |-> UrlToString(url)]

\* a request arrives: state, code verifier and authorization URL (the cookies
\* of the browser stay as earlier calls left them)
GetBegin ==
    /\ oauth.pc \in {"idle", "responded"}
    /\ \E state \in OAuthStates, codeVerifier \in CodeVerifiers, production \in BOOLEAN :
        oauth' = [pc |-> "built",
                  state |-> state,
                  codeVerifier |-> codeVerifier,
                  production |-> production,
                  url |-> SearchParamsSet(
                              CreateAuthorizationURL(state, codeVerifier, "openid profile"),
                              "prompt", "select_account"),
                  cookies |-> oauth.cookies,
                  response |-> NoResponse]
    /\ UNCHANGED <<sessions, users, now, cache, last, prev, procs>>

\* a variant that stores the code verifier under the name of the state
GetSetStateCookieSwapped ==
    /\ oauth.pc = "built"
    /\ oauth' = [oauth EXCEPT
                   !.pc = "stateSet",
                   !.cookies.google_oauth_state = Cookie(oauth.codeVerifier, oauth.production)]
    /\ UNCHANGED <<sessions, users, now, cache, last, prev, procs>>

\* cookieStore.set("google_oauth_state", state, ...)
GetSetStateCookie ==
    /\ oauth.pc = "built"
    /\ oauth' = [oauth EXCEPT
                   !.pc = "stateSet",
                   !.cookies.google_oauth_state = Cookie(oauth.state, oauth.production)]
    /\ UNCHANGED <<sessions, users, now, cache, last, prev, procs>>

\* cookieStore.set("google_code_verifier", codeVerifier, ...)
GetSetVerifierCookie ==
    /\ oauth.pc = "stateSet"
    /\ oauth' = [oauth EXCEPT
                   !.pc = "verifierSet",
                   !.cookies.google_code_verifier = Cookie(oauth.codeVerifier, oauth.production)]
    /\ UNCHANGED <<sessions, users, now, cache, last, prev, procs>>

\* return new Response(...)
GetRespond ==
    /\ oauth.pc = "verifierSet"
    /\ oauth' = [oauth EXCEPT !.pc = "responded", !.response = Redirect(oauth.url)]
    /\ UNCHANGED <<sessions, users, now, cache, last, prev, procs>>

OAuthNext ==
    \/ GetBegin
    \/ GetSetStateCookie
    \/ GetSetVerifierCookie
    \/ GetRespond

\* a handler that has started runs to its return statement: none of its
\* statements waits on anything
OAuthSpec ==
    /\ Init
    /\ [][OAuthNext]_vars
    /\ WF_vars(GetSetStateCookie)
    /\ WF_vars(GetSetVerifierCookie)
    /\ WF_vars(GetRespond)

\* the authorization URL, as a string, built from a state and a verifier
AuthorizationLocation(state, codeVerifier) ==
    "https://accounts.google.com/o/oauth2/v2/auth?state=" \o state
        \o "&code_challenge=S256:" \o codeVerifier
        \o "&scope=openid profile&prompt=select_account"

\* both cookies hold the values of the running call, with the lifetime of
\* ten minutes
CookiesSet(o) ==
    /\ o.cookies.google_oauth_state # NoCookie
    /\ o.cookies.google_code_verifier # NoCookie
    /\ o.cookies.google_oauth_state.value = o.state
    /\ o.cookies.google_code_verifier.value = o.codeVerifier
    /\ o.cookies.google_oauth_state.maxAge = 600
    /\ o.cookies.google_code_verifier.maxAge = 600

\* C12: every call of GET ends in a response of status 302 whose Location is
\* the authorization URL of the state and the code verifier the call
\* generated; when the response is produced, google_oauth_state already holds
\* that state and google_code_verifier that verifier, each with a lifetime of
\* ten minutes.
C12_RedirectAfterCookies ==
    /\ [](oauth.response # NoResponse
            => /\ oauth.response.status = 302
               /\ oauth.response.Location
                    = AuthorizationLocation(oauth.state, oauth.codeVerifier)
               /\ CookiesSet(oauth))
    /\ [][(oauth.response = NoResponse /\ oauth'.response # NoResponse)
            => /\ CookiesSet(oauth)
               /\ oauth'.cookies = oauth.cookies
               /\ oauth'.state = oauth.state
               /\ oauth'.codeVerifier = oauth.codeVerifier]_vars
    /\ (oauth.pc = "built") ~> (oauth.pc = "responded")

\* a second call has answered, with a state and a verifier other than those
\* of the cookies it found
C12_Witness ==
    /\ oauth.pc = "responded"
    /\ oauth.response # NoResponse
    /\ oauth.state = "s2"
    /\ oauth.codeVerifier = "v3"
    /\ oauth.cookies.google_oauth_state.value = "s2"

(***************************************************************************)
(* validateSessionToken as the statements between its awaits: the select   *)
(* (lines 56-63), the tests against the clock (lines 64-70), and the       *)
(* delete (line 66) or the update (lines 71-76).  Other requests and the   *)
(* clock take steps in between.                                            *)
(***************************************************************************)
Run(pc, token, saw, session, user, ret) ==
    [pc |-> pc, token |-> token, saw |-> saw, session |-> session,
     user |-> user, ret |-> ret]

\* lines 55-63: the hash, the select, the return when no row comes back
ValidateSelect(p, token) ==
    /\ procs[p].pc \in {"idle", "done"}
    /\ LET result == SelectJoin(sessions, users, HashToken(token))
       IN  IF Cardinality(result) < 1
           THEN procs' = [procs EXCEPT ![p] = Run("done", token, Null, Null, Null, NoSession)]
           ELSE LET first == CHOOSE r \in result : TRUE
                IN  procs' = [procs EXCEPT ![p] =
                        Run("selected", token, first.session, first.session,
                            first.user, NoSession)]
    /\ UNCHANGED <<sessions, users, now, cache, last, prev, oauth>>

\* lines 64-70 and 78: the expiry test, the window test, the new expiresAt
\* of the session object, the return of a session left as it is
ValidateCheck(p) ==
    /\ procs[p].pc = "selected"
    /\ LET r == procs[p]
       IN  IF IsExpired(r.session, now)
           THEN procs' = [procs EXCEPT ![p].pc = "deleting"]
           ELSE IF InRenewWindow(r.session, now)
                THEN procs' = [procs EXCEPT
                                 ![p].pc = "updating",
                                 ![p].session.expiresAt = NewExpiry(now)]
                ELSE procs' = [procs EXCEPT ![p] =
                        Run("done", r.token, r.saw, Null, Null,
                            [session |-> r.session, user |-> r.user])]
    /\ UNCHANGED <<sessions, users, now, cache, last, prev, oauth>>

\* lines 66-67: the delete, return {session: null, user: null}
ValidateDelete(p) ==
    /\ procs[p].pc = "deleting"
    /\ LET r == procs[p]
       IN  /\ sessions' = DeleteById(sessions, r.session.id)
           /\ procs' = [procs EXCEPT ![p] =
                   Run("done", r.token, r.saw, Null, Null, NoSession)]
    /\ UNCHANGED <<users, now, cache, last, prev, oauth>>

\* lines 71-78: the update, return {session, user}
ValidateUpdate(p) ==
    /\ procs[p].pc = "updating"
    /\ LET r == procs[p]
       IN  /\ sessions' = UpdateExpiry(sessions, r.session.id, r.session.expiresAt)
           /\ procs' = [procs EXCEPT ![p] =
                   Run("done", r.token, r.saw, Null, Null,
                       [session |-> r.session, user |-> r.user])]
    /\ UNCHANGED <<users, now, cache, last, prev, oauth>>

\* the token the overlapping requests carry
RaceTokens == {"t1"}

\* a session is created and validated by requests that overlap
RaceNext ==
    \/ \E token \in RaceTokens, userId \in UserIds : createSession(token, userId)
    \/ \E p \in Procs, token \in RaceTokens : ValidateSelect(p, token)
    \/ \E p \in Procs : ValidateCheck(p)
    \/ \E p \in Procs : ValidateDelete(p)
    \/ \E p \in Procs : ValidateUpdate(p)
    \/ \E d \in 1..SessionLifetime : AdvanceClock(d)

RaceSpec == CacheInit /\ [][RaceNext]_vars

\* the request p has returned a session it renewed
Renewed(p) ==
    /\ procs[p].pc = "done"
    /\ procs[p].saw # Null
    /\ procs[p].ret # NoSession
    /\ procs[p].ret.session.expiresAt # procs[p].saw.expiresAt

\* the two requests validated the same token, selected the same row before
\* either wrote, found it unexpired and inside the renewal window, and both
\* have returned
BothRenewed ==
    /\ Renewed("a")
    /\ Renewed("b")
    /\ procs["a"].token = procs["b"].token
    /\ procs["a"].saw = procs["b"].saw

StoredFor(p) == RowsById(sessions, HashToken(procs[p].token))

\* C13 as stated: after two overlapping renewals of the same session the row
\* is stored with the expiry one of the two returned, and neither returned
\* an expiry later than the stored one.
C13_Original ==
    BothRenewed
        => /\ StoredFor("a") # {}
           /\ \A s \in StoredFor("a") :
                /\ s.expiresAt \in {procs[p].ret.session.expiresAt : p \in Procs}
                /\ \A p \in Procs : procs[p].ret.session.expiresAt <= s.expiresAt

\* C13: after two overlapping renewals of the same session both calls have
\* returned the session, the row is stored, and its expiry is the one
\* returned by one of the two calls (a clock value that call read, plus the
\* lifetime): the one whose update ran last, each update storing the expiry
\* its own call returns.
C13_LastWriteWins ==
    /\ [](BothRenewed
            => /\ StoredFor("a") # {}
               /\ \A s \in StoredFor("a") :
                    s.expiresAt \in {procs[p].ret.session.expiresAt : p \in Procs}
               /\ \A p \in Procs :
                    /\ procs[p].ret.session.id = HashToken(procs[p].token)
                    /\ procs[p].ret.session.expiresAt - SessionLifetime \in 0..now)
    /\ [][\A p \in Procs :
            (procs[p].pc = "updating" /\ procs'[p].pc = "done")
                => \A s \in RowsById(sessions', procs[p].session.id) :
                        s.expiresAt = procs'[p].ret.session.expiresAt]_vars

\* two overlapping renewals that read different clock values, the earlier
\* one written last
C13_Witness ==
    /\ BothRenewed
    /\ \E s \in StoredFor("a") :
        \E p \in Procs : procs[p].ret.session.expiresAt > s.expiresAt

\* C14: once invalidateSession or invalidateAllSessions has deleted a
\* session, a getCurrentSession call carrying that session's token returns
\* no session, also inside the lifetime of the cache entry that holds the
\* earlier result (stated for the call that comes next).
C14_EvictedOnInvalidate ==
    [][(/\ last.op \in {"invalidateSession", "invalidateAllSessions"}
        /\ Called("getCurrentSession")
        /\ \E s \in last.was : s.id = HashToken(last'.token))
            => last'.ret = NoSession]_vars

\* C15: when validateSessionToken executes its delete, the expiresAt stored
\* for that session id at that moment is not later than the clock: a row
\* another request has just renewed is not deleted.
C15_DeleteOnlyExpired ==
    [][\A p \in Procs :
        (procs[p].pc = "deleting" /\ procs'[p].pc = "done")
            => \A s \in RowsById(sessions, procs[p].session.id) :
                    s.expiresAt <= now]_vars

(***************************************************************************)
(* The cookie functions, and the session manager with everything that can  *)
(* touch a session row or stand in for a validation                        *)
(***************************************************************************)
\* setSessionTokenCookie(token, expiresAt)
setSessionTokenCookie(token, expiresAt) ==
    /\ \E production \in BOOLEAN :
        oauth' = [oauth EXCEPT !.cookies.session =
                    [value |-> token, httpOnly |-> TRUE, sameSite |-> "lax",
                     secure |-> production, expires |-> expiresAt, path |-> "/"]]
    /\ UNCHANGED <<sessions, users, now, cache, last, prev, procs>>

\* deleteSessionTokenCookie()
deleteSessionTokenCookie ==
    /\ \E production \in BOOLEAN :
        oauth' = [oauth EXCEPT !.cookies.session =
                    [value |-> "", httpOnly |-> TRUE, sameSite |-> "lax",
                     secure |-> production, maxAge |-> 0, path |-> "/"]]
    /\ UNCHANGED <<sessions, users, now, cache, last, prev, procs>>

\* the token of the session followed through its life
LifeTokens == {"t1"}

\* the cookie is set with the token and the expiry of a stored session
LifeNext ==
    \/ \E token \in LifeTokens, userId \in UserIds : createSession(token, userId)
    \/ \E token \in LifeTokens : validateSessionToken(token)
    \/ \E sessionId \in SessionIds : invalidateSession(sessionId)
    \/ \E userId \in UserIds : invalidateAllSessions(userId)
    \/ \E token \in LifeTokens \cup {NoToken} : getCurrentSession(token)
    \/ \E key \in CacheKeys : CacheDrop(key)
    \/ \E token \in LifeTokens :
        \E s \in RowsById(sessions, HashToken(token)) :
            setSessionTokenCookie(token, s.expiresAt)
    \/ deleteSessionTokenCookie
    \/ \E userId \in UserIds : DeleteUser(userId)
    \/ \E d \in 1..SessionLifetime : AdvanceClock(d)

LifeSpec == CacheInit /\ [][LifeNext]_vars

\* this step runs validateSessionToken, directly or as the body of
\* getCurrentSessionCached on a miss
RanValidation ==
    \/ Called("validateSessionToken")
    \/ Called("getCurrentSession") /\ ~last'.hit /\ last'.token # NoToken

Ids(tbl) == {s.id : s \in tbl}

\* C16: a row enters the table by a createSession that found no row of its
\* id; the expiresAt of a stored row is changed only by a validation of its
\* token (not by createSession, invalidateSession, invalidateAllSessions,
\* the cookie functions or a cache hit); a row leaves the table only by a
\* validation of its token that finds it expired, by invalidateSession on
\* its id or by invalidateAllSessions on its user; a validation whose row has
\* no user returns no session and leaves the row.
C16_Lifecycle ==
    /\ [][\A s \in sessions' :
            s.id \notin Ids(sessions)
                => /\ Called("createSession")
                   /\ ~last'.threw
                   /\ s = NewSession(last'.token, last'.userId, now)]_vars
    /\ [][\A s \in sessions, r \in sessions' :
            (s.id = r.id /\ s # r)
                => /\ RanValidation
                   /\ HashToken(last'.token) = s.id
                   /\ r = [s EXCEPT !.expiresAt = NewExpiry(now)]]_vars
    /\ [][\A s \in sessions :
            s.id \notin Ids(sessions')
                => \/ /\ RanValidation
                      /\ HashToken(last'.token) = s.id
                      /\ IsExpired(s, now)
                      /\ last'.ret = NoSession
                   \/ Called("invalidateSession") /\ last'.sessionId = s.id
                   \/ Called("invalidateAllSessions") /\ last'.userId = s.userId]_vars
    /\ [][(RanValidation
            /\ \E s \in sessions :
                s.id = HashToken(last'.token) /\ User(s.userId) \notin users)
                => last'.ret = NoSession /\ sessions' = sessions]_vars

\* a validation has just found a row without its user, and the row is there
C16_Witness ==
    /\ last.op = "validateSessionToken"
    /\ last.ret = NoSession
    /\ \E s \in last.was : User(s.userId) \notin users /\ s \in sessions
    /\ oauth.cookies.session # NoCookie

(***************************************************************************)
(* Storage steps that can fail.  Every statement on db is awaited outside  *)
(* any try block: a statement the database rejects throws out of the       *)
(* function at that line.  The argument fail names the statement the       *)
(* database rejects in this call, if the call gets to it.                  *)
(***************************************************************************)
\* what a function that threw gives its caller in place of a value
NoValue == [thrown |-> TRUE]

\* a rejection that is caught and answered with {session: null, user: null}
RejectedSwallowed(tbl) == [ret |-> NoSession, tbl |-> tbl, threw |-> FALSE]

\* await of a statement the database rejects: the function throws, the
\* table is as the statements before left it
Rejected(tbl) == [ret |-> NoValue, tbl |-> tbl, threw |-> TRUE]

Returned(ret, tbl) == [ret |-> ret, tbl |-> tbl, threw |-> FALSE]

\* createSession (lines 33-45)
CreateSessionDb(tbl, token, userId, t, fail) ==
    LET session == NewSession(token, userId, t)
    IN  IF fail = "insert" \/ InsertFails(tbl, session)
        THEN Rejected(tbl)
        ELSE Returned([session |-> session, user |-> Null], InsertSession(tbl, session))

\* validateSessionToken (lines 52-79)
ValidateSessionTokenDb(tbl, utbl, token, t, fail) ==
    LET sessionId == HashToken(token)
        result == SelectJoin(tbl, utbl, sessionId)
    IN  IF fail = "select"
        THEN Rejected(tbl)
        ELSE IF Cardinality(result) < 1
        THEN Returned(NoSession, tbl)
        ELSE LET first == CHOOSE r \in result : TRUE
                 user == first.user
                 session == first.session
             IN  IF IsExpired(session, t)
                 THEN IF fail = "delete"
                      THEN Rejected(tbl)
                      ELSE Returned(NoSession, DeleteById(tbl, session.id))
                 ELSE IF InRenewWindow(session, t)
                      THEN LET renewed == [session EXCEPT !.expiresAt = NewExpiry(t)]
                           IN  IF fail = "update"
                               THEN Rejected(tbl)
                               ELSE Returned([session |-> renewed, user |-> user],
                                             UpdateExpiry(tbl, session.id, renewed.expiresAt))
                      ELSE Returned([session |-> session, user |-> user], tbl)

\* invalidateSession (lines 86-88)
InvalidateSessionDb(tbl, sessionId, fail) ==
    IF fail = "delete" THEN Rejected(tbl) ELSE Returned(NoSession, DeleteById(tbl, sessionId))

\* invalidateAllSessions (lines 95-97)
InvalidateAllSessionsDb(tbl, userId, fail) ==
    IF fail = "delete" THEN Rejected(tbl) ELSE Returned(NoSession, DeleteByUser(tbl, userId))

\* the record of a call with the statement that was set to fail
FailCall(op, token, userId, sessionId, was, out, fail) ==
    [op |-> op, token |-> token, userId |-> userId, sessionId |-> sessionId,
     at |-> now, was |-> was, ret |-> out.ret, threw |-> out.threw, fail |-> fail]

createSessionDb(token, userId, fail) ==
    LET out == CreateSessionDb(sessions, token, userId, now, fail)
    IN  /\ User(userId) \in users
        /\ sessions' = out.tbl
        /\ last' = FailCall("createSession", token, userId, HashToken(token),
                            RowsById(sessions, HashToken(token)), out, fail)
        /\ UNCHANGED <<users, now, cache, prev, procs, oauth>>

validateSessionTokenDb(token, fail) ==
    LET out == ValidateSessionTokenDb(sessions, users, token, now, fail)
    IN  /\ sessions' = out.tbl
        /\ last' = FailCall("validateSessionToken", token, NoUser, HashToken(token),
                            RowsById(sessions, HashToken(token)), out, fail)
        /\ UNCHANGED <<users, now, cache, prev, procs, oauth>>

invalidateSessionDb(sessionId, fail) ==
    LET out == InvalidateSessionDb(sessions, sessionId, fail)
    IN  /\ sessions' = out.tbl
        /\ last' = FailCall("invalidateSession", NoToken, NoUser, sessionId,
                            RowsById(sessions, sessionId), out, fail)
        /\ UNCHANGED <<users, now, cache, prev, procs, oauth>>

invalidateAllSessionsDb(userId, fail) ==
    LET out == InvalidateAllSessionsDb(sessions, userId, fail)
    IN  /\ sessions' = out.tbl
        /\ last' = FailCall("invalidateAllSessions", NoToken, userId, "",
                            RowsByUser(sessions, userId), out, fail)
        /\ UNCHANGED <<users, now, cache, prev, procs, oauth>>

FailNext ==
    \/ \E token \in Tokens, userId \in UserIds, fail \in {"none", "insert"} :
        createSessionDb(token, userId, fail)
    \/ \E token \in Tokens, fail \in {"none", "select", "delete", "update"} :
        validateSessionTokenDb(token, fail)
    \/ \E sessionId \in SessionIds, fail \in {"none", "delete"} :
        invalidateSessionDb(sessionId, fail)
    \/ \E userId \in UserIds, fail \in {"none", "delete"} :
        invalidateAllSessionsDb(userId, fail)
    \/ \E d \in 1..SessionLifetime : AdvanceClock(d)

FailSpec == CacheInit /\ [][FailNext]_vars

\* the call of this step gets to the statement that is set to fail
FaultHit ==
    /\ last' # last
    /\ \/ last'.fail \in {"insert", "select"}
       \/ last'.fail = "delete" /\ last'.op \in {"invalidateSession", "invalidateAllSessions"}
       \/ /\ last'.op = "validateSessionToken"
          /\ \E r \in SelectJoin(sessions, users, last'.sessionId) :
                \/ last'.fail = "delete" /\ IsExpired(r.session, now)
                \/ /\ last'.fail = "update"
                   /\ ~IsExpired(r.session, now)
                   /\ InRenewWindow(r.session, now)

\* C17: a call whose storage statement fails throws, gives no value (neither
\* a session nor no session), and leaves the table as it was before the
\* statement; a call that does not throw has made its write: the session
\* createSession returns is stored, the row a validation reports as expired
\* is gone, the expiry a validation returns is the stored one.
C17_FailurePropagates ==
    /\ [][FaultHit
            => /\ last'.threw
               /\ last'.ret = NoValue
               /\ sessions' = sessions]_vars
    /\ [][(Called("createSession") /\ last'.ret # NoValue)
            => last'.ret.session \in sessions']_vars
    /\ [][(Called("validateSessionToken") /\ last'.ret # NoValue)
            => IF last'.ret = NoSession
               THEN \A r \in SelectJoin(sessions, users, last'.sessionId) :
                        RowsById(sessions', last'.sessionId) = {}
               ELSE last'.ret.session \in sessions']_vars

\* a renewal whose update failed: the call threw and the row keeps the
\* expiry it had
C17_Witness ==
    /\ last.op = "validateSessionToken"
    /\ last.fail = "update"
    /\ last.threw
    /\ last.was # {}
    /\ last.was \subseteq sessions

(***************************************************************************)
(* Overlapping validations together with the calls that delete rows        *)
(***************************************************************************)
ConcNext ==
    \/ RaceNext
    \/ \E sessionId \in {HashToken(token) : token \in RaceTokens} :
        invalidateSession(sessionId)
    \/ \E userId \in UserIds : invalidateAllSessions(userId)

ConcSpec == CacheInit /\ [][ConcNext]_vars

\* C18 as stated: the expiresAt of a row that stays in the table never
\* decreases.
C18_Original ==
    [][\A s \in sessions, r \in sessions' :
        s.id = r.id => r.expiresAt >= s.expiresAt]_vars

\* C18: the expiresAt of a row that stays in the table decreases only in the
\* update of a validateSessionToken call that selected the row before
\* another write to it (an overlapping renewal, or a deletion followed by a
\* createSession of the same token): calls that do not overlap never
\* decrease it.
C18_DecreaseOnlyStale ==
    [][\A s \in sessions, r \in sessions' :
        (s.id = r.id /\ r.expiresAt < s.expiresAt)
            => \E p \in Procs :
                /\ procs[p].pc = "updating"
                /\ procs'[p].pc = "done"
                /\ procs[p].session.id = s.id
                /\ procs[p].saw # s
                /\ r.expiresAt = procs[p].session.expiresAt]_vars

\* the update of a call that selected an earlier row of the same id has
\* lowered the expiry of the row createSession has just stored
C18_Witness ==
    /\ last.op = "createSession"
    /\ ~last.threw
    /\ \E p \in Procs :
        /\ Renewed(p)
        /\ HashToken(procs[p].token) = last.sessionId
        /\ procs[p].saw.expiresAt < last.ret.session.expiresAt
        /\ \E s \in RowsById(sessions, last.sessionId) :
            /\ s.expiresAt = procs[p].ret.session.expiresAt
            /\ s.expiresAt < last.ret.session.expiresAt

\* the call c stored or returned the session of token
Touched(c, token) ==
    /\ c.op \in {"createSession", "validateSessionToken"}
    /\ c.token = token
    /\ ~c.threw
    /\ c.ret # NoSession

\* the session of token was last created or validated 30 days ago or longer:
\* by the most recent call, or by the call before it with a call that is
\* not a validation of the token in between
Idle30(token) ==
    \/ Touched(last, token) /\ now >= last.at + SessionLifetime
    \/ /\ ~Touched(last, token)
       /\ prev # HistoryOff
       /\ Touched(prev, token)
       /\ now >= prev.at + SessionLifetime

AllWithinLifetime == \A s \in sessions : s.expiresAt <= now + SessionLifetime

\* C19 as stated: every stored session has expiresAt <= now + 30 days, and a
\* validateSessionToken of a token whose session was not validated for 30
\* days returns no session and leaves no row of it.
C19_Original ==
    /\ []AllWithinLifetime
    /\ [][\A token \in Tokens :
            (Idle30(token) /\ Called("validateSessionToken") /\ last'.token = token)
                => /\ last'.ret = NoSession
                   /\ RowsById(sessions', HashToken(token)) = {}]_vars

\* C19 amended: every stored session has expiresAt <= now + 30 days, and a
\* validateSessionToken of a token whose session was not validated for 30
\* days returns no session; it leaves no row of it when the owning user
\* exists, and leaves the row as it is when the user does not.
C19_IdleRejected ==
    /\ []AllWithinLifetime
    /\ [][\A token \in Tokens :
            (Idle30(token) /\ Called("validateSessionToken") /\ last'.token = token)
                => /\ last'.ret = NoSession
                   /\ \A s \in RowsById(sessions, HashToken(token)) :
                        IF UserExists(s.userId)
                        THEN RowsById(sessions', HashToken(token)) = {}
                        ELSE sessions' = sessions]_vars

\* a session created, left alone for 30 days, then validated: rejected and
\* removed
C19_Witness ==
    /\ prev.op = "createSession"
    /\ ~prev.threw
    /\ Validated
    /\ last.token = prev.token
    /\ last.at = prev.at + SessionLifetime
    /\ last.was = {prev.ret.session}
    /\ last.ret = NoSession
    /\ RowsById(sessions, last.sessionId) = {}
    /\ UserExists(prev.userId)

\* C20: a validateSessionToken or getCurrentSession call with token t'
\* leaves every row whose id is not hash(t') as it is and returns no session
\* of another id; when it runs the validation its result is the one the
\* validation gives on the table reduced to the row hash(t'); a
\* getCurrentSession call without cookie returns no session, matches no row
\* and leaves the table as it is.
C20_TokenIsolation ==
    /\ [][(Called("validateSessionToken") \/ Called("getCurrentSession"))
            => /\ \A s \in sessions :
                    s.id # HashToken(last'.token) => s \in sessions'
               /\ \A r \in sessions' :
                    r.id # HashToken(last'.token) => r \in sessions
               /\ last'.ret.session # Null
                    => last'.ret.session.id = HashToken(last'.token)]_vars
    /\ [][RanValidation
            => /\ last'.ret
                    = ValidateSessionToken(RowsById(sessions, HashToken(last'.token)),
                                           users, last'.token, now).ret
               /\ RowsById(sessions', HashToken(last'.token))
                    = ValidateSessionToken(RowsById(sessions, HashToken(last'.token)),
                                           users, last'.token, now).tbl]_vars
    /\ [][(Called("getCurrentSession") /\ last'.token = NoToken)
            => /\ last'.ret = NoSession
               /\ last'.was = {}
               /\ sessions' = sessions]_vars

\* the cookie t2 of a session found expired and deleted, the session of t1
\* stored with another expiry and left
C20_Witness ==
    /\ last.op = "getCurrentSession"
    /\ last.token = "t2"
    /\ ~last.hit
    /\ last.was # {}
    /\ last.ret = NoSession
    /\ RowsById(sessions, HashToken("t2")) = {}
    /\ \E s \in RowsById(sessions, HashToken("t1")) :
        \A w \in last.was : s.expiresAt > w.expiresAt

====
